---- MODULE Spec2Model ----
(***************************************************************************)
(* A model of server.py: the GmailCalendarMapsServer session, its          *)
(* initialisation routine, its seven operations and the seven tool         *)
(* handlers wrapped around them.  The remote Google clients are stubs      *)
(* whose behaviour (a response or a raised exception per call) is an       *)
(* input of each handler action.                                           *)
(***************************************************************************)
EXTENDS Integers, Sequences, FiniteSets, TLC

VARIABLES
    gmail_service,      \* self.gmail_service
    calendar_service,   \* self.calendar_service
    gmaps_client,       \* self.gmaps_client
    credentials,        \* self.credentials
    inits,              \* number of initialize_google_apis calls made so far
    initReturn,         \* what the last initialize_google_apis call did
    pc,                 \* "idle", "inited" (an initialisation just returned),
                        \* "called" (a tool handler just returned)
    tool,               \* the tool handler last invoked
    args,               \* request.arguments of that invocation
    result,             \* what the invocation produced
    calls,              \* the remote calls the invocation issued, in order
    tasks               \* the tool invocations hosted at the same time

vars == <<gmail_service, calendar_service, gmaps_client, credentials,
          inits, initReturn, pc, tool, args, result, calls, tasks>>

-----------------------------------------------------------------------------
(* Bounds of the model. *)

MaxInits == 2
MaxTasks == 2
MaxMsgs == 2

-----------------------------------------------------------------------------
(* Python values.  Every value is a tagged record so that values of         *)
(* different Python types can be told apart without being compared.         *)

None == [t |-> "None"]
StrV(s) == [t |-> "str", v |-> s]
IntV(n) == [t |-> "int", v |-> n]
ListV(q) == [t |-> "list", v |-> q]

\* bool(x), as `not x`, `if x` and all([...]) evaluate it.
Truthy(x) ==
    CASE x.t = "None" -> FALSE
      [] x.t = "str"  -> x.v # ""
      [] x.t = "int"  -> x.v # 0
      [] x.t = "list" -> x.v # <<>>
      [] OTHER        -> TRUE

\* str(x) / f"{x}" of a value.
PyStr(x) ==
    CASE x.t = "None" -> "None"
      [] x.t = "str"  -> x.v
      [] x.t = "int"  -> ToString(x.v)
      [] OTHER        -> "<object>"

\* request.arguments is None in NoArgs; otherwise a mapping name -> value.
NoArgs == [t |-> "None"]
Mapping(m) == [t |-> "dict", v |-> m]

(* Exceptions: a class and the text str(e) gives.  Every class below is a   *)
(* subclass of Exception; HttpError is googleapiclient.errors.HttpError.    *)
Exc(cls, msg) == [cls |-> cls, msg |-> msg]
HttpErr == Exc("HttpError", "<HttpError 500 \"Backend Error\">")
OtherErr == Exc("TransportError", "connection reset")
KeyError(k) == Exc("KeyError", "'" \o k \o "'")
AttributeErrorGet == Exc("AttributeError", "'NoneType' object has no attribute 'get'")

\* `except <handler>` catches exc: the handler names the class or a base of it.
CatchesOnlyNamed(handler, exc) == exc.cls = handler
Catches(handler, exc) ==
    \/ exc.cls = handler
    \/ handler = "Exception"

\* The outcome of running a function body: it returns a value or raises.
Return(v, cs) == [kind |-> "return", value |-> v, exc |-> Exc("", ""), calls |-> cs]
Raise(e, cs) == [kind |-> "raise", value |-> None, exc |-> e, calls |-> cs]

-----------------------------------------------------------------------------
(* Session / initialisation. *)

Client(api) == [t |-> "client", api |-> api, complete |-> TRUE]
Credentials(expired, refresh_token) ==
    [t |-> "Credentials", expired |-> expired, refresh_token |-> refresh_token]

Session == [gmail_service |-> gmail_service, calendar_service |-> calendar_service,
            gmaps_client |-> gmaps_client, credentials |-> credentials]

\* The inputs of one initialisation: the credentials file, and what each
\* collaborator (token refresh, the three client constructors) does.
InitEnvs ==
    [file : {"missing", "malformed", "valid"},
     expired : BOOLEAN, refresh_token : BOOLEAN,
     refresh : {"ok", "raise"},
     gmail : {"ok", "raise"}, calendar : {"ok", "raise"}, maps : {"ok", "raise"}]

\* `self.x = ctor(...)`: the attribute is assigned only if ctor returned.
StoreEvenIfFailed(old, outcome, new) ==
    IF outcome = "ok" THEN new ELSE [new EXCEPT !.complete = FALSE]
Store(old, outcome, new) == IF outcome = "ok" THEN new ELSE old

\* The try body of initialize_google_apis: the session it leaves, and
\* whether it returned (True / False) or raised, and at which step.
InitBody(s, e) ==
    IF e.file = "missing"
    THEN [session |-> s, kind |-> "return", ret |-> FALSE,
          exc |-> Exc("", ""), fault |-> "missing"]
    ELSE IF e.file = "malformed"
    THEN [session |-> s, kind |-> "raise", ret |-> FALSE,
          exc |-> Exc("ValueError", "malformed credentials"), fault |-> "load"]
    ELSE
    LET s1 == [s EXCEPT !.credentials = Credentials(e.expired, e.refresh_token)]
        needRefresh == Truthy(s1.credentials) /\ s1.credentials.expired
                       /\ s1.credentials.refresh_token
        s2 == IF needRefresh /\ e.refresh = "ok"
              THEN [s1 EXCEPT !.credentials.expired = FALSE] ELSE s1
        s3 == [s2 EXCEPT !.gmail_service = Store(@, e.gmail, Client("gmail"))]
        s4 == [s3 EXCEPT !.calendar_service = Store(@, e.calendar, Client("calendar"))]
        s5 == [s4 EXCEPT !.gmaps_client = Store(@, e.maps, Client("maps"))]
    IN  IF needRefresh /\ e.refresh = "raise"
        THEN [session |-> s1, kind |-> "raise", ret |-> FALSE,
              exc |-> Exc("RefreshError", "invalid_grant"), fault |-> "refresh"]
        ELSE IF e.gmail = "raise"
        THEN [session |-> s3, kind |-> "raise", ret |-> FALSE,
              exc |-> OtherErr, fault |-> "gmail"]
        ELSE IF e.calendar = "raise"
        THEN [session |-> s4, kind |-> "raise", ret |-> FALSE,
              exc |-> OtherErr, fault |-> "calendar"]
        ELSE IF e.maps = "raise"
        THEN [session |-> s5, kind |-> "raise", ret |-> FALSE,
              exc |-> Exc("ValueError", "Invalid API key provided."), fault |-> "maps"]
        ELSE [session |-> s5, kind |-> "return", ret |-> TRUE,
              exc |-> Exc("", ""), fault |-> "none"]

\* `except Exception as e: ... return False` around the body.
InitExceptOnlyValueError(b) ==
    IF b.kind = "raise" /\ CatchesOnlyNamed("ValueError", b.exc)
    THEN [b EXCEPT !.kind = "return", !.ret = FALSE]
    ELSE b
InitExcept(b) ==
    IF b.kind = "raise" /\ Catches("Exception", b.exc)
    THEN [b EXCEPT !.kind = "return", !.ret = FALSE]
    ELSE b

initialize_google_apis(s, e) == InitExcept(InitBody(s, e))

-----------------------------------------------------------------------------
(* Remote clients (stubs) and the plumbing shared by the operations. *)

\* What a remote call did: it returned a response or raised.
Ok(v) == [kind |-> "ok", value |-> v, exc |-> Exc("", "")]
Fail(e) == [kind |-> "raise", value |-> None, exc |-> e]

\* One remote call as issued: the endpoint, its parameters, what came back.
Call(op, a, out) == [op |-> op, args |-> a, out |-> out]

\* d.get(k, default) on a response dict (a function on its present keys).
Get(d, k, default) == IF k \in DOMAIN d THEN d[k] ELSE default

\* {"error": msg}, and the handlers' test `isinstance(x, dict) and "error" in x`.
ErrorDict(msg) == [t |-> "dict", v |-> [error |-> msg]]
Dict(d) == [t |-> "dict", v |-> d]
IsErrorDict(x) == x.t = "dict" /\ "error" \in DOMAIN x.v

\* `except <handler> as error: return {"error": str(error)}` of an operation.
\* A variant of the operations' except clause with a fixed message.
MethodExceptGeneric(handler, body) ==
    IF body.kind = "raise" /\ Catches(handler, body.exc)
    THEN Return(ErrorDict("request failed"), body.calls)
    ELSE body

MethodExcept(handler, body) ==
    IF body.kind = "raise" /\ Catches(handler, body.exc)
    THEN Return(ErrorDict(body.exc.msg), body.calls)
    ELSE body

\* A variant of args.get that ignores the default.
ArgGetNoDefault(a, name, default) == IF name \in DOMAIN a.v THEN a.v[name] ELSE None

\* args.get(name) / args.get(name, default) on request.arguments.
ArgGet(a, name, default) == IF name \in DOMAIN a.v THEN a.v[name] ELSE default

\* CallToolResult(content=[TextContent(type="text", text=...)])
CallToolResult(text) == [kind |-> "result", text |-> text, exc |-> Exc("", "")]
Escaped(e) == [kind |-> "escaped", text |-> "", exc |-> e]

\* `except Exception as e: return CallToolResult(... f"Error: {str(e)}")`
\* around a handler body; a body that returned gives its CallToolResult.
ToolExceptOnlyHttpError(body) ==
    IF body.kind = "return" THEN body.value
    ELSE IF CatchesOnlyNamed("HttpError", body.exc)
         THEN CallToolResult("Error: " \o body.exc.msg)
         ELSE Escaped(body.exc)
\* A variant of the handler's except clause that returns str(e) bare.
ToolExceptNoPrefix(body) ==
    IF body.kind = "return" THEN body.value
    ELSE IF Catches("Exception", body.exc)
         THEN CallToolResult(body.exc.msg)
         ELSE Escaped(body.exc)
ToolExcept(body) ==
    IF body.kind = "return" THEN body.value
    ELSE IF Catches("Exception", body.exc)
         THEN CallToolResult("Error: " \o body.exc.msg)
         ELSE Escaped(body.exc)

Dashes50 == "--------------------------------------------------"
Dashes30 == "------------------------------"

-----------------------------------------------------------------------------
(* Gmail: list_gmail_messages and its tool handler. *)

MsgIds == {"m1", "m2"}

Header(n, v) == [name |-> n, value |-> v]
FullMsg(id) ==
    [id |-> id, snippet |-> "snippet of " \o id,
     payload |-> [headers |-> << Header("From", "sender of " \o id),
                                 Header("Subject", "subject of " \o id),
                                 Header("Date", "date of " \o id) >>]]
BareMsg(id) == [id |-> id, payload |-> [headers |-> << >>]]
NoPayloadMsg(id) == [id |-> id, snippet |-> "snippet of " \o id]

GetOutcomes(id) ==
    {Ok(FullMsg(id)), Ok(BareMsg(id)), Ok(NoPayloadMsg(id)),
     Fail(HttpErr), Fail(OtherErr)}

Listings == UNION {[1..n -> MsgIds] : n \in 0..MaxMsgs}
ListOutcomes ==
    {Fail(HttpErr), Fail(OtherErr), Ok([resultSizeEstimate |-> 0])}
    \cup {Ok([messages |-> [i \in DOMAIN l |-> [id |-> l[i]]]]) : l \in Listings}

GmailListEnvs ==
    {[list |-> lo, get |-> g] :
        lo \in ListOutcomes,
        g \in {[m1 |-> a, m2 |-> b] : a \in GetOutcomes("m1"), b \in GetOutcomes("m2")}}

\* A variant of the header lookup that yields '' for an absent header.
HeaderValueNoDefault(headers, name, default) ==
    LET hits == {i \in 1..Len(headers) : headers[i].name = name}
    IN  IF hits = {} THEN ""
        ELSE headers[CHOOSE i \in hits : \A j \in hits : i <= j].value

\* next((h['value'] for h in headers if h['name'] == name), default)
HeaderValue(headers, name, default) ==
    LET hits == {i \in 1..Len(headers) : headers[i].name = name}
    IN  IF hits = {} THEN default
        ELSE headers[CHOOSE i \in hits : \A j \in hits : i <= j].value

\* A variant of the loop that returns what it has when a get fails.
RECURSIVE FetchMessagesKeepFetched(_, _, _, _, _)
FetchMessagesKeepFetched(listing, i, r, cs, acc) ==
    IF i > Len(listing) THEN Return(ListV(acc), cs)
    ELSE
    LET id == listing[i].id
        out == r.get[id]
        cs1 == Append(cs, Call("gmail.users.messages.get", [userId |-> "me", id |-> id], out))
    IN  IF out.kind = "raise" THEN Return(ListV(acc), cs1)
        ELSE IF "payload" \notin DOMAIN out.value THEN Return(ListV(acc), cs1)
        ELSE
        LET headers == out.value.payload.headers
            m == [id |-> id,
                  subject |-> HeaderValue(headers, "Subject", "No Subject"),
                  sender |-> HeaderValue(headers, "From", "Unknown"),
                  date |-> HeaderValue(headers, "Date", ""),
                  snippet |-> Get(out.value, "snippet", "")]
        IN  FetchMessagesKeepFetched(listing, i + 1, r, cs1, Append(acc, m))

\* The loop over results.get('messages', []): one get per listed message.
RECURSIVE FetchMessages(_, _, _, _, _)
FetchMessages(listing, i, r, cs, acc) ==
    IF i > Len(listing) THEN Return(ListV(acc), cs)
    ELSE
    LET id == listing[i].id
        out == r.get[id]
        cs1 == Append(cs, Call("gmail.users.messages.get", [userId |-> "me", id |-> id], out))
    IN  IF out.kind = "raise" THEN Raise(out.exc, cs1)
        ELSE IF "payload" \notin DOMAIN out.value THEN Raise(KeyError("payload"), cs1)
        ELSE
        LET headers == out.value.payload.headers
            m == [id |-> id,
                  subject |-> HeaderValue(headers, "Subject", "No Subject"),
                  sender |-> HeaderValue(headers, "From", "Unknown"),
                  date |-> HeaderValue(headers, "Date", ""),
                  snippet |-> Get(out.value, "snippet", "")]
        IN  FetchMessages(listing, i + 1, r, cs1, Append(acc, m))

\* A variant without the `if not self.gmail_service` guard: None.users() raises.
ListMessagesBodyUnchecked(svc, query, max_results, r) ==
    IF ~Truthy(svc)
    THEN Raise(Exc("AttributeError", "'NoneType' object has no attribute 'users'"), << >>)
    ELSE
    LET cs1 == << Call("gmail.users.messages.list",
                       [userId |-> "me", q |-> query, maxResults |-> max_results],
                       r.list) >>
    IN  IF r.list.kind = "raise" THEN Raise(r.list.exc, cs1)
        ELSE FetchMessages(Get(r.list.value, "messages", << >>), 1, r, cs1, << >>)

\* A variant that repeats a failed list call once before giving up.
ListMessagesBodyRetry(svc, query, max_results, r) ==
    IF ~Truthy(svc) THEN Return(ErrorDict("Gmail service not initialized"), << >>)
    ELSE
    LET c == Call("gmail.users.messages.list",
                  [userId |-> "me", q |-> query, maxResults |-> max_results],
                  r.list)
    IN  IF r.list.kind = "raise" THEN Raise(r.list.exc, << c, c >>)
        ELSE FetchMessages(Get(r.list.value, "messages", << >>), 1, r, << c >>, << >>)

ListMessagesBody(svc, query, max_results, r) ==
    IF ~Truthy(svc) THEN Return(ErrorDict("Gmail service not initialized"), << >>)
    ELSE
    LET cs1 == << Call("gmail.users.messages.list",
                       [userId |-> "me", q |-> query, maxResults |-> max_results],
                       r.list) >>
    IN  IF r.list.kind = "raise" THEN Raise(r.list.exc, cs1)
        ELSE FetchMessages(Get(r.list.value, "messages", << >>), 1, r, cs1, << >>)

list_gmail_messages(svc, query, max_results, r) ==
    MethodExcept("HttpError", ListMessagesBody(svc, query, max_results, r))

RECURSIVE RenderMessages(_, _)
RenderMessages(ms, i) ==
    IF i > Len(ms) THEN ""
    ELSE "From: " \o ms[i].sender \o "\n"
         \o "Subject: " \o ms[i].subject \o "\n"
         \o "Date: " \o ms[i].date \o "\n"
         \o "Snippet: " \o ms[i].snippet \o "\n"
         \o Dashes50 \o "\n"
         \o RenderMessages(ms, i + 1)

ListMessagesToolBody(s, a, r) ==
    IF a.t = "None" THEN Raise(AttributeErrorGet, << >>)
    ELSE
    LET query == ArgGet(a, "query", StrV(""))
        max_results == ArgGet(a, "max_results", IntV(10))
        messages == list_gmail_messages(s.gmail_service, query, max_results, r)
    IN  IF messages.kind = "raise" THEN messages
        ELSE IF IsErrorDict(messages.value)
        THEN Return(CallToolResult("Error: " \o messages.value.v.error), messages.calls)
        ELSE Return(CallToolResult("Recent Gmail Messages:\n\n"
                                   \o RenderMessages(messages.value.v, 1)),
                    messages.calls)

list_gmail_messages_tool(s, a, r) ==
    LET body == ListMessagesToolBody(s, a, r)
    IN  [result |-> ToolExcept(body), calls |-> body.calls]

ListMessagesArgs ==
    {NoArgs, Mapping(<< >>)}
    \cup {Mapping([query |-> StrV("is:unread")]),
          Mapping([max_results |-> IntV(2)]),
          Mapping([query |-> StrV("is:unread"), max_results |-> IntV(2)])}

-----------------------------------------------------------------------------
(* Gmail: send_gmail_message and its tool handler. *)

\* The optional presence of a string argument: absent, empty, or a value.
Present(name, vals) == {<< >>} \cup {[k \in {name} |-> StrV(v)] : v \in vals}

\* The union of two argument mappings with disjoint names.
Merge(f, g) == [k \in (DOMAIN f) \cup (DOMAIN g) |-> IF k \in DOMAIN f THEN f[k] ELSE g[k]]

\* all([...]) over the values of the required arguments (any([...]) is the
\* variant that lets a partly-filled request through).
AnyTruthy(vs) == \E i \in 1..Len(vs) : Truthy(vs[i])
AllTruthy(vs) == \A i \in 1..Len(vs) : Truthy(vs[i])

\* base64.urlsafe_b64encode(MIMEText(body) with to / subject).as_bytes()):
\* the encoded message, kept as the triple it encodes.
RawMessage(to, subject, body) == << "MIMEText", PyStr(to), PyStr(subject), PyStr(body) >>

SendOutcomes ==
    {Fail(HttpErr), Fail(OtherErr),
     Ok([id |-> "msg_1", threadId |-> "thr_1"]),
     Ok([id |-> "msg_1"])}

SendMessageBody(svc, to, subject, body, out) ==
    IF ~Truthy(svc) THEN Return(ErrorDict("Gmail service not initialized"), << >>)
    ELSE
    LET cs1 == << Call("gmail.users.messages.send",
                       [userId |-> "me", body |-> [raw |-> RawMessage(to, subject, body)]],
                       out) >>
    IN  IF out.kind = "raise" THEN Raise(out.exc, cs1)
        ELSE IF "id" \notin DOMAIN out.value THEN Raise(KeyError("id"), cs1)
        ELSE IF "threadId" \notin DOMAIN out.value THEN Raise(KeyError("threadId"), cs1)
        ELSE Return(Dict([success |-> TRUE, message_id |-> out.value.id,
                          thread_id |-> out.value.threadId]), cs1)

send_gmail_message(svc, to, subject, body, out) ==
    MethodExcept("HttpError", SendMessageBody(svc, to, subject, body, out))

SendMessageToolBody(s, a, out) ==
    IF a.t = "None" THEN Raise(AttributeErrorGet, << >>)
    ELSE
    LET to == ArgGet(a, "to", None)
        subject == ArgGet(a, "subject", None)
        body == ArgGet(a, "body", None)
    IN  IF ~AllTruthy(<< to, subject, body >>)
        THEN Return(CallToolResult("Error: to, subject, and body are required"), << >>)
        ELSE
        LET res == send_gmail_message(s.gmail_service, to, subject, body, out)
        IN  IF res.kind = "raise" THEN res
            ELSE IF IsErrorDict(res.value)
            THEN Return(CallToolResult("Error: " \o res.value.v.error), res.calls)
            ELSE Return(CallToolResult("Message sent successfully! Message ID: "
                                       \o res.value.v.message_id), res.calls)

send_gmail_message_tool(s, a, out) ==
    LET body == SendMessageToolBody(s, a, out)
    IN  [result |-> ToolExcept(body), calls |-> body.calls]

SendMessageArgs ==
    {NoArgs}
    \cup {Mapping(Merge(x, Merge(y, z))) :
            x \in Present("to", {"", "bob@example.com"}),
            y \in Present("subject", {"", "Hi"}),
            z \in Present("body", {"", "Hello Bob"})}

-----------------------------------------------------------------------------
(* Calendar: list_calendar_events, create_calendar_event and their handlers. *)

MaxEvents == 2

FullEvent ==
    [id |-> "e1", summary |-> "Standup", description |-> "daily sync",
     location |-> "Room 1",
     start |-> [dateTime |-> "2025-01-02T10:00:00Z"],
     end |-> [dateTime |-> "2025-01-02T10:30:00Z"],
     attendees |-> << [email |-> "ann@example.com"] >>]
AllDayEvent ==
    [id |-> "e2", start |-> [date |-> "2025-01-03"], end |-> [date |-> "2025-01-04"]]
NoStartEvent == [id |-> "e3", summary |-> "Broken"]

Events == {FullEvent, AllDayEvent, NoStartEvent}
EventLists == UNION {[1..n -> Events] : n \in 0..MaxEvents}
EventsOutcomes ==
    {Fail(HttpErr), Fail(OtherErr), Ok([kind |-> "calendar#events"])}
    \cup {Ok([items |-> l]) : l \in EventLists}

\* d.get(k) of a dict whose values are strings: the value, or None.
GetOrNone(d, k) == IF k \in DOMAIN d THEN StrV(d[k]) ELSE None

\* event['start'].get('dateTime', event['start'].get('date'))
WhenOf(d) == IF "dateTime" \in DOMAIN d THEN StrV(d.dateTime) ELSE GetOrNone(d, "date")

\* A variant of the loop that puts each mapped event in front of the list.
RECURSIVE MapEventsReversed(_, _, _, _)
MapEventsReversed(items, i, cs, acc) ==
    IF i > Len(items) THEN Return(ListV(acc), cs)
    ELSE
    LET event == items[i]
    IN  IF "start" \notin DOMAIN event THEN Raise(KeyError("start"), cs)
        ELSE IF "end" \notin DOMAIN event THEN Raise(KeyError("end"), cs)
        ELSE IF "id" \notin DOMAIN event THEN Raise(KeyError("id"), cs)
        ELSE
        LET atts == Get(event, "attendees", << >>)
            ev == [id |-> event.id,
                   summary |-> Get(event, "summary", "No Title"),
                   description |-> Get(event, "description", ""),
                   start |-> WhenOf(event.start),
                   end |-> WhenOf(event.end),
                   location |-> Get(event, "location", ""),
                   attendees |-> [j \in DOMAIN atts |-> GetOrNone(atts[j], "email")]]
        IN  MapEventsReversed(items, i + 1, cs, << ev >> \o acc)

RECURSIVE MapEvents(_, _, _, _)
MapEvents(items, i, cs, acc) ==
    IF i > Len(items) THEN Return(ListV(acc), cs)
    ELSE
    LET event == items[i]
    IN  IF "start" \notin DOMAIN event THEN Raise(KeyError("start"), cs)
        ELSE IF "end" \notin DOMAIN event THEN Raise(KeyError("end"), cs)
        ELSE IF "id" \notin DOMAIN event THEN Raise(KeyError("id"), cs)
        ELSE
        LET atts == Get(event, "attendees", << >>)
            ev == [id |-> event.id,
                   summary |-> Get(event, "summary", "No Title"),
                   description |-> Get(event, "description", ""),
                   start |-> WhenOf(event.start),
                   end |-> WhenOf(event.end),
                   location |-> Get(event, "location", ""),
                   attendees |-> [j \in DOMAIN atts |-> GetOrNone(atts[j], "email")]]
        IN  MapEvents(items, i + 1, cs, Append(acc, ev))

ListEventsBody(svc, calendar_id, max_results, out) ==
    IF ~Truthy(svc) THEN Return(ErrorDict("Calendar service not initialized"), << >>)
    ELSE
    LET cs1 == << Call("calendar.events.list",
                       [calendarId |-> calendar_id, timeMin |-> "utcnow",
                        maxResults |-> max_results, singleEvents |-> TRUE,
                        orderBy |-> "startTime"],
                       out) >>
    IN  IF out.kind = "raise" THEN Raise(out.exc, cs1)
        ELSE MapEvents(Get(out.value, "items", << >>), 1, cs1, << >>)

list_calendar_events(svc, calendar_id, max_results, out) ==
    MethodExcept("HttpError", ListEventsBody(svc, calendar_id, max_results, out))

RECURSIVE RenderEvents(_, _)
RenderEvents(es, i) ==
    IF i > Len(es) THEN ""
    ELSE "Title: " \o es[i].summary \o "\n"
         \o "Start: " \o PyStr(es[i].start) \o "\n"
         \o "End: " \o PyStr(es[i].end) \o "\n"
         \o (IF es[i].location # "" THEN "Location: " \o es[i].location \o "\n" ELSE "")
         \o (IF es[i].description # ""
             THEN "Description: " \o es[i].description \o "\n" ELSE "")
         \o Dashes50 \o "\n"
         \o RenderEvents(es, i + 1)

ListEventsToolBody(s, a, out) ==
    IF a.t = "None" THEN Raise(AttributeErrorGet, << >>)
    ELSE
    LET calendar_id == ArgGet(a, "calendar_id", StrV("primary"))
        max_results == ArgGet(a, "max_results", IntV(10))
        events == list_calendar_events(s.calendar_service, calendar_id, max_results, out)
    IN  IF events.kind = "raise" THEN events
        ELSE IF IsErrorDict(events.value)
        THEN Return(CallToolResult("Error: " \o events.value.v.error), events.calls)
        ELSE Return(CallToolResult("Upcoming Calendar Events:\n\n"
                                   \o RenderEvents(events.value.v, 1)),
                    events.calls)

list_calendar_events_tool(s, a, out) ==
    LET body == ListEventsToolBody(s, a, out)
    IN  [result |-> ToolExcept(body), calls |-> body.calls]

ListEventsArgs ==
    {NoArgs, Mapping(<< >>),
     Mapping([calendar_id |-> StrV("work")]),
     Mapping([calendar_id |-> StrV("work"), max_results |-> IntV(2)])}

\* [{'email': email} for email in attendees]: a list gives one entry per
\* item, a str is iterated character by character.
Chars(str) == [i \in 1..Len(str) |-> SubSeq(str, i, i)]
Iterate(x) == IF x.t = "str" THEN Chars(x.v) ELSE x.v

InsertOutcomes ==
    {Fail(HttpErr), Fail(OtherErr),
     Ok([id |-> "evt_1", htmlLink |-> "https://calendar/evt_1"]),
     Ok([id |-> "evt_1"])}

\* The event body built before the insert call.
EventBody(summary, start_time, end_time, description, location, attendees) ==
    LET base == [summary |-> PyStr(summary), description |-> PyStr(description),
                 start |-> [dateTime |-> PyStr(start_time), timeZone |-> "UTC"],
                 end |-> [dateTime |-> PyStr(end_time), timeZone |-> "UTC"]]
        withLoc == IF Truthy(location)
                   THEN Merge(base, [location |-> PyStr(location)]) ELSE base
        emails == Iterate(attendees)
    IN  IF Truthy(attendees)
        THEN Merge(withLoc, [attendees |-> [j \in DOMAIN emails |-> [email |-> emails[j]]]])
        ELSE withLoc

CreateEventBody(svc, summary, start_time, end_time, description, location, attendees, out) ==
    IF ~Truthy(svc) THEN Return(ErrorDict("Calendar service not initialized"), << >>)
    ELSE
    LET cs1 == << Call("calendar.events.insert",
                       [calendarId |-> "primary",
                        body |-> EventBody(summary, start_time, end_time,
                                           description, location, attendees)],
                       out) >>
    IN  IF out.kind = "raise" THEN Raise(out.exc, cs1)
        ELSE IF "id" \notin DOMAIN out.value THEN Raise(KeyError("id"), cs1)
        ELSE IF "htmlLink" \notin DOMAIN out.value THEN Raise(KeyError("htmlLink"), cs1)
        ELSE Return(Dict([success |-> TRUE, event_id |-> out.value.id,
                          html_link |-> out.value.htmlLink]), cs1)

create_calendar_event(svc, summary, start_time, end_time, description, location, attendees, out) ==
    MethodExcept("HttpError",
                 CreateEventBody(svc, summary, start_time, end_time,
                                 description, location, attendees, out))

CreateEventToolBody(s, a, out) ==
    IF a.t = "None" THEN Raise(AttributeErrorGet, << >>)
    ELSE
    LET summary == ArgGet(a, "summary", None)
        start_time == ArgGet(a, "start_time", None)
        end_time == ArgGet(a, "end_time", None)
        description == ArgGet(a, "description", StrV(""))
        location == ArgGet(a, "location", StrV(""))
        attendees == ArgGet(a, "attendees", ListV(<< >>))
    IN  IF ~AllTruthy(<< summary, start_time, end_time >>)
        THEN Return(CallToolResult("Error: summary, start_time, and end_time are required"),
                    << >>)
        ELSE
        LET res == create_calendar_event(s.calendar_service, summary, start_time, end_time,
                                         description, location, attendees, out)
        IN  IF res.kind = "raise" THEN res
            ELSE IF IsErrorDict(res.value)
            THEN Return(CallToolResult("Error: " \o res.value.v.error), res.calls)
            ELSE Return(CallToolResult("Event created successfully! Event ID: "
                                       \o res.value.v.event_id), res.calls)

create_calendar_event_tool(s, a, out) ==
    LET body == CreateEventToolBody(s, a, out)
    IN  [result |-> ToolExcept(body), calls |-> body.calls]

CreateEventOptionals ==
    {<< >>,
     [description |-> StrV("daily sync"), location |-> StrV("Room 1"),
      attendees |-> ListV(<< "a@x.io", " b@x.io" >>)],
     [location |-> StrV(""), attendees |-> StrV("a, b")]}

CreateEventArgs ==
    {NoArgs}
    \cup {Mapping(Merge(Merge(x, Merge(y, z)), o)) :
            x \in Present("summary", {"", "Standup"}),
            y \in Present("start_time", {"", "2025-01-02T10:00:00Z"}),
            z \in Present("end_time", {"", "2025-01-02T10:30:00Z"}),
            o \in CreateEventOptionals}

-----------------------------------------------------------------------------
(* Maps: get_directions, geocode_address, find_nearby_places and handlers. *)

MaxSteps == 2
MaxPlaces == 2

ApiErr == Exc("ApiError", "REQUEST_DENIED")

Text(x) == [text |-> x]
Step(n) == [html_instructions |-> "turn " \o ToString(n),
            distance |-> Text(ToString(n) \o " km"),
            duration |-> Text(ToString(n) \o " mins")]
Route(n) ==
    [legs |-> << [distance |-> Text("10 km"), duration |-> Text("15 mins"),
                  start_address |-> "A St", end_address |-> "B Ave",
                  steps |-> [i \in 1..n |-> Step(i)]] >>]
NoLegsRoute == [summary |-> "US-101"]

DirectionsOutcomes ==
    {Fail(ApiErr), Ok(<< >>), Ok(<< NoLegsRoute >>)}
    \cup {Ok(<< Route(n) >>) : n \in 0..MaxSteps}

GetDirectionsBody(client, origin, destination, mode, out) ==
    IF ~Truthy(client) THEN Return(ErrorDict("Maps service not initialized"), << >>)
    ELSE
    LET cs1 == << Call("maps.directions",
                       [origin |-> origin, destination |-> destination, mode |-> mode],
                       out) >>
    IN  IF out.kind = "raise" THEN Raise(out.exc, cs1)
        ELSE IF out.value = << >> THEN Return(ErrorDict("No directions found"), cs1)
        ELSE IF "legs" \notin DOMAIN out.value[1] THEN Raise(KeyError("legs"), cs1)
        ELSE
        LET legs == out.value[1].legs[1]
        IN  Return(Dict([distance |-> legs.distance.text,
                         duration |-> legs.duration.text,
                         steps |-> [i \in DOMAIN legs.steps |->
                                      [instruction |-> legs.steps[i].html_instructions,
                                       distance |-> legs.steps[i].distance.text,
                                       duration |-> legs.steps[i].duration.text]],
                         start_address |-> legs.start_address,
                         end_address |-> legs.end_address]), cs1)

get_directions(client, origin, destination, mode, out) ==
    MethodExcept("Exception", GetDirectionsBody(client, origin, destination, mode, out))

\* for i, step in enumerate(result['steps'], 1)
RECURSIVE RenderSteps(_, _)
RenderSteps(steps, i) ==
    IF i > Len(steps) THEN ""
    ELSE ToString(i) \o ". " \o steps[i].instruction
         \o " (" \o steps[i].distance \o ", " \o steps[i].duration \o ")\n"
         \o RenderSteps(steps, i + 1)

\* A variant of the handler that calls the operation before it tests the
\* required arguments.
GetDirectionsToolBodyClientFirst(s, a, out) ==
    IF a.t = "None" THEN Raise(AttributeErrorGet, << >>)
    ELSE
    LET origin == ArgGet(a, "origin", None)
        destination == ArgGet(a, "destination", None)
        mode == ArgGet(a, "mode", StrV("driving"))
        res == get_directions(s.gmaps_client, origin, destination, mode, out)
    IN  IF ~Truthy(s.gmaps_client)
        THEN Return(CallToolResult("Error: " \o res.value.v.error), res.calls)
        ELSE IF ~AllTruthy(<< origin, destination >>)
        THEN Return(CallToolResult("Error: origin and destination are required"), << >>)
        ELSE IF res.kind = "raise" THEN res
        ELSE IF IsErrorDict(res.value)
        THEN Return(CallToolResult("Error: " \o res.value.v.error), res.calls)
        ELSE Return(CallToolResult(
                 "Directions from " \o res.value.v.start_address
                 \o " to " \o res.value.v.end_address \o ":\n"
                 \o "Distance: " \o res.value.v.distance \o "\n"
                 \o "Duration: " \o res.value.v.duration \o "\n\n"
                 \o "Steps:\n"
                 \o RenderSteps(res.value.v.steps, 1)), res.calls)

GetDirectionsToolBody(s, a, out) ==
    IF a.t = "None" THEN Raise(AttributeErrorGet, << >>)
    ELSE
    LET origin == ArgGet(a, "origin", None)
        destination == ArgGet(a, "destination", None)
        mode == ArgGet(a, "mode", StrV("driving"))
    IN  IF ~AllTruthy(<< origin, destination >>)
        THEN Return(CallToolResult("Error: origin and destination are required"), << >>)
        ELSE
        LET res == get_directions(s.gmaps_client, origin, destination, mode, out)
        IN  IF res.kind = "raise" THEN res
            ELSE IF IsErrorDict(res.value)
            THEN Return(CallToolResult("Error: " \o res.value.v.error), res.calls)
            ELSE Return(CallToolResult(
                     "Directions from " \o res.value.v.start_address
                     \o " to " \o res.value.v.end_address \o ":\n"
                     \o "Distance: " \o res.value.v.distance \o "\n"
                     \o "Duration: " \o res.value.v.duration \o "\n\n"
                     \o "Steps:\n"
                     \o RenderSteps(res.value.v.steps, 1)), res.calls)

get_directions_tool(s, a, out) ==
    LET body == GetDirectionsToolBody(s, a, out)
    IN  [result |-> ToolExcept(body), calls |-> body.calls]

GetDirectionsArgs ==
    {NoArgs}
    \cup {Mapping(Merge(x, Merge(y, z))) :
            x \in Present("origin", {"", "San Francisco"}),
            y \in Present("destination", {"", "Mountain View"}),
            z \in Present("mode", {"walking"})}

\* Geocoder matches: coordinates are whole degrees here.
Match(name, lat, lng) ==
    [formatted_address |-> name, geometry |-> [location |-> [lat |-> lat, lng |-> lng]]]
NoGeometryMatch == [formatted_address |-> "Nowhere"]

GeocodeOutcomes ==
    {Fail(ApiErr), Ok(<< >>), Ok(<< NoGeometryMatch >>),
     Ok(<< Match("1600 Amphitheatre Pkwy", 37, -122) >>),
     Ok(<< Match("Paris, France", 48, 2), Match("Paris, TX", 33, -95) >>)}

GeocodeBody(client, address, out) ==
    IF ~Truthy(client) THEN Return(ErrorDict("Maps service not initialized"), << >>)
    ELSE
    LET cs1 == << Call("maps.geocode", [address |-> address], out) >>
    IN  IF out.kind = "raise" THEN Raise(out.exc, cs1)
        ELSE IF out.value = << >> THEN Return(ErrorDict("Address not found"), cs1)
        ELSE IF "geometry" \notin DOMAIN out.value[1] THEN Raise(KeyError("geometry"), cs1)
        ELSE
        LET location == out.value[1].geometry.location
        IN  Return(Dict([address |-> out.value[1].formatted_address,
                         latitude |-> location.lat,
                         longitude |-> location.lng]), cs1)

geocode_address(client, address, out) ==
    MethodExcept("Exception", GeocodeBody(client, address, out))

GeocodeToolBody(s, a, out) ==
    IF a.t = "None" THEN Raise(AttributeErrorGet, << >>)
    ELSE
    LET address == ArgGet(a, "address", None)
    IN  IF ~Truthy(address)
        THEN Return(CallToolResult("Error: address is required"), << >>)
        ELSE
        LET res == geocode_address(s.gmaps_client, address, out)
        IN  IF res.kind = "raise" THEN res
            ELSE IF IsErrorDict(res.value)
            THEN Return(CallToolResult("Error: " \o res.value.v.error), res.calls)
            ELSE Return(CallToolResult(
                     "Address: " \o res.value.v.address \o "\n"
                     \o "Latitude: " \o ToString(res.value.v.latitude) \o "\n"
                     \o "Longitude: " \o ToString(res.value.v.longitude) \o "\n"),
                     res.calls)

geocode_address_tool(s, a, out) ==
    LET body == GeocodeToolBody(s, a, out)
    IN  [result |-> ToolExcept(body), calls |-> body.calls]

GeocodeArgs == {NoArgs} \cup {Mapping(x) : x \in Present("address", {"", "1600 Amphitheatre"})}

FullPlace ==
    [name |-> "Cafe Uno", vicinity |-> "1 Main St", rating |-> "4.5",
     types |-> << "cafe", "food" >>, place_id |-> "p1"]
MinimalPlace == [name |-> "Kiosk", place_id |-> "p2"]
NoNamePlace == [place_id |-> "p3", vicinity |-> "3 Side St"]

Places == {FullPlace, MinimalPlace, NoNamePlace}
PlaceLists == UNION {[1..n -> Places] : n \in 0..MaxPlaces}
PlacesOutcomes ==
    {Fail(ApiErr), Ok([status |-> "ZERO_RESULTS"])}
    \cup {Ok([results |-> l]) : l \in PlaceLists}

NearbyEnvs == [geocode : GeocodeOutcomes, places : PlacesOutcomes]

\* A variant of the loop that reads place['rating'] by subscript.
RECURSIVE MapPlacesStrictRating(_, _, _, _)
MapPlacesStrictRating(results, i, cs, acc) ==
    IF i > Len(results) THEN Return(ListV(acc), cs)
    ELSE
    LET place == results[i]
    IN  IF "name" \notin DOMAIN place THEN Raise(KeyError("name"), cs)
        ELSE IF "rating" \notin DOMAIN place THEN Raise(KeyError("rating"), cs)
        ELSE IF "place_id" \notin DOMAIN place THEN Raise(KeyError("place_id"), cs)
        ELSE MapPlacesStrictRating(results, i + 1, cs,
                       Append(acc, [name |-> place.name,
                                    address |-> Get(place, "vicinity", ""),
                                    rating |-> place.rating,
                                    types |-> Get(place, "types", << >>),
                                    place_id |-> place.place_id]))

RECURSIVE MapPlaces(_, _, _, _)
MapPlaces(results, i, cs, acc) ==
    IF i > Len(results) THEN Return(ListV(acc), cs)
    ELSE
    LET place == results[i]
    IN  IF "name" \notin DOMAIN place THEN Raise(KeyError("name"), cs)
        ELSE IF "place_id" \notin DOMAIN place THEN Raise(KeyError("place_id"), cs)
        ELSE MapPlaces(results, i + 1, cs,
                       Append(acc, [name |-> place.name,
                                    address |-> Get(place, "vicinity", ""),
                                    rating |-> Get(place, "rating", "N/A"),
                                    types |-> Get(place, "types", << >>),
                                    place_id |-> place.place_id]))

\* The second round trip of find_nearby_places, after a geocoder match.
SearchNearby(lat_lng, radius, place_type, r, cs) ==
    LET cs2 == Append(cs, Call("maps.places_nearby",
                               [location |-> lat_lng, radius |-> radius, type |-> place_type],
                               r.places))
    IN  IF r.places.kind = "raise" THEN Raise(r.places.exc, cs2)
        ELSE MapPlaces(Get(r.places.value, "results", << >>), 1, cs2, << >>)

\* A variant that searches even when the geocoder found nothing.
FindNearbyBodyNoShortCircuit(client, location, radius, place_type, r) ==
    IF ~Truthy(client) THEN Return(ErrorDict("Maps service not initialized"), << >>)
    ELSE
    LET cs1 == << Call("maps.geocode", [address |-> location], r.geocode) >>
    IN  IF r.geocode.kind = "raise" THEN Raise(r.geocode.exc, cs1)
        ELSE IF r.geocode.value = << >>
        THEN SearchNearby([lat |-> 0, lng |-> 0], radius, place_type, r, cs1)
        ELSE IF "geometry" \notin DOMAIN r.geocode.value[1]
        THEN Raise(KeyError("geometry"), cs1)
        ELSE SearchNearby(r.geocode.value[1].geometry.location, radius, place_type, r, cs1)

FindNearbyBody(client, location, radius, place_type, r) ==
    IF ~Truthy(client) THEN Return(ErrorDict("Maps service not initialized"), << >>)
    ELSE
    LET cs1 == << Call("maps.geocode", [address |-> location], r.geocode) >>
    IN  IF r.geocode.kind = "raise" THEN Raise(r.geocode.exc, cs1)
        ELSE IF r.geocode.value = << >> THEN Return(ErrorDict("Location not found"), cs1)
        ELSE IF "geometry" \notin DOMAIN r.geocode.value[1]
        THEN Raise(KeyError("geometry"), cs1)
        ELSE SearchNearby(r.geocode.value[1].geometry.location, radius, place_type, r, cs1)

find_nearby_places(client, location, radius, place_type, r) ==
    MethodExcept("Exception", FindNearbyBody(client, location, radius, place_type, r))

\* ', '.join(place['types'])
RECURSIVE Join(_, _)
Join(q, i) ==
    IF i > Len(q) THEN ""
    ELSE IF i = Len(q) THEN q[i]
    ELSE q[i] \o ", " \o Join(q, i + 1)

RECURSIVE RenderPlaces(_, _)
RenderPlaces(ps, i) ==
    IF i > Len(ps) THEN ""
    ELSE "Name: " \o ps[i].name \o "\n"
         \o "Address: " \o ps[i].address \o "\n"
         \o "Rating: " \o ps[i].rating \o "\n"
         \o "Types: " \o Join(ps[i].types, 1) \o "\n"
         \o Dashes30 \o "\n"
         \o RenderPlaces(ps, i + 1)

FindNearbyToolBody(s, a, r) ==
    IF a.t = "None" THEN Raise(AttributeErrorGet, << >>)
    ELSE
    LET location == ArgGet(a, "location", None)
        radius == ArgGet(a, "radius", IntV(5000))
        place_type == ArgGet(a, "place_type", None)
    IN  IF ~Truthy(location)
        THEN Return(CallToolResult("Error: location is required"), << >>)
        ELSE
        LET res == find_nearby_places(s.gmaps_client, location, radius, place_type, r)
        IN  IF res.kind = "raise" THEN res
            ELSE IF IsErrorDict(res.value)
            THEN Return(CallToolResult("Error: " \o res.value.v.error), res.calls)
            ELSE Return(CallToolResult(
                     "Nearby places around " \o PyStr(location) \o ":\n\n"
                     \o RenderPlaces(res.value.v, 1)), res.calls)

find_nearby_places_tool(s, a, r) ==
    LET body == FindNearbyToolBody(s, a, r)
    IN  [result |-> ToolExcept(body), calls |-> body.calls]

FindNearbyOptionals ==
    {<< >>, [radius |-> IntV(1000), place_type |-> StrV("cafe")]}

FindNearbyArgs ==
    {NoArgs}
    \cup {Mapping(Merge(x, o)) :
            x \in Present("location", {"", "San Francisco"}),
            o \in FindNearbyOptionals}

-----------------------------------------------------------------------------
(* The state machine. *)

NoResult == [kind |-> "none", text |-> "", exc |-> Exc("", "")]
NoInit == [kind |-> "none", ret |-> FALSE, fault |-> "none", fresh |-> FALSE]

Init ==
    /\ gmail_service = None
    /\ calendar_service = None
    /\ gmaps_client = None
    /\ credentials = None
    /\ inits = 0
    /\ initReturn = NoInit
    /\ pc = "idle"
    /\ tool = ""
    /\ args = NoArgs
    /\ result = NoResult
    /\ calls = <<>>
    /\ tasks = << >>

\* await server.initialize_google_apis(credentials_path, api_key)
Initialize ==
    /\ pc = "idle"
    /\ inits < MaxInits
    /\ \E e \in InitEnvs :
         LET r == initialize_google_apis(Session, e)
         IN  /\ gmail_service' = r.session.gmail_service
             /\ calendar_service' = r.session.calendar_service
             /\ gmaps_client' = r.session.gmaps_client
             /\ credentials' = r.session.credentials
             /\ initReturn' = [kind |-> r.kind, ret |-> r.ret, fault |-> r.fault,
                               fresh |-> (inits = 0)]
    /\ inits' = inits + 1
    /\ pc' = "inited"
    /\ UNCHANGED <<tool, args, result, calls, tasks>>

\* The caller takes the returned value and goes on to its next statement.
Continue ==
    /\ pc # "idle"
    /\ pc' = "idle"
    /\ tool' = ""
    /\ args' = NoArgs
    /\ result' = NoResult
    /\ calls' = <<>>
    /\ UNCHANGED <<gmail_service, calendar_service, gmaps_client, credentials,
                   inits, initReturn, tasks>>

\* A variant in which a handler that reports an error drops its handles.
SessionAfterToolResetOnError(s, out) ==
    IF out.result.kind = "result" /\ Len(out.result.text) >= 7
          /\ SubSeq(out.result.text, 1, 7) = "Error: "
    THEN [s EXCEPT !.gmail_service = None, !.calendar_service = None,
                   !.gmaps_client = None]
    ELSE s

\* The session a tool handler leaves: the handlers and the operations read
\* self.gmail_service, self.calendar_service and self.gmaps_client and
\* assign no attribute of the server object.
SessionAfterTool(s, out) == s

\* A tool handler runs to completion: its result and the remote calls it made.
Invoke(name, out) ==
    /\ pc = "idle"
    /\ pc' = "called"
    /\ tool' = name
    /\ result' = out.result
    /\ calls' = out.calls
    /\ gmail_service' = SessionAfterTool(Session, out).gmail_service
    /\ calendar_service' = SessionAfterTool(Session, out).calendar_service
    /\ gmaps_client' = SessionAfterTool(Session, out).gmaps_client
    /\ credentials' = SessionAfterTool(Session, out).credentials
    /\ UNCHANGED <<inits, initReturn, tasks>>

ListMessages ==
    \E a \in ListMessagesArgs, r \in GmailListEnvs :
        /\ args' = a
        /\ Invoke("list_messages", list_gmail_messages_tool(Session, a, r))

SendMessage ==
    \E a \in SendMessageArgs, out \in SendOutcomes :
        /\ args' = a
        /\ Invoke("send_message", send_gmail_message_tool(Session, a, out))

ListEvents ==
    \E a \in ListEventsArgs, out \in EventsOutcomes :
        /\ args' = a
        /\ Invoke("list_events", list_calendar_events_tool(Session, a, out))

CreateEvent ==
    \E a \in CreateEventArgs, out \in InsertOutcomes :
        /\ args' = a
        /\ Invoke("create_event", create_calendar_event_tool(Session, a, out))

GetDirections ==
    \E a \in GetDirectionsArgs, out \in DirectionsOutcomes :
        /\ args' = a
        /\ Invoke("get_directions", get_directions_tool(Session, a, out))

GeocodeAddress ==
    \E a \in GeocodeArgs, out \in GeocodeOutcomes :
        /\ args' = a
        /\ Invoke("geocode_address", geocode_address_tool(Session, a, out))

FindNearbyPlaces ==
    \E a \in FindNearbyArgs, r \in NearbyEnvs :
        /\ args' = a
        /\ Invoke("find_nearby_places", find_nearby_places_tool(Session, a, r))

Next ==
    \/ Initialize
    \/ ListMessages
    \/ SendMessage
    \/ ListEvents
    \/ CreateEvent
    \/ GetDirections
    \/ GeocodeAddress
    \/ FindNearbyPlaces
    \/ Continue

Spec == Init /\ [][Next]_vars

-----------------------------------------------------------------------------
(* Tool invocations hosted at the same time, after initialisation. Each
   handler is a coroutine; every remote call it makes is a point at which
   another invocation may run. *)

\* The handler registered for a tool name, run against a session.
RunTool(s, name, a, env) ==
    CASE name = "list_messages"      -> list_gmail_messages_tool(s, a, env)
      [] name = "send_message"       -> send_gmail_message_tool(s, a, env)
      [] name = "list_events"        -> list_calendar_events_tool(s, a, env)
      [] name = "create_event"       -> create_calendar_event_tool(s, a, env)
      [] name = "get_directions"     -> get_directions_tool(s, a, env)
      [] name = "geocode_address"    -> geocode_address_tool(s, a, env)
      [] name = "find_nearby_places" -> find_nearby_places_tool(s, a, env)

Invocation(name, a, env) == [tool |-> name, args |-> a, env |-> env]

\* The invocations hosted together: for every tool one request, with the
\* remote responses it will meet.
ConcInvocations ==
    {Invocation("list_messages", Mapping(<< >>),
                [list |-> Ok([messages |-> << [id |-> "m1"], [id |-> "m2"] >>]),
                 get |-> [m1 |-> Ok(FullMsg("m1")), m2 |-> Ok(BareMsg("m2"))]]),
     Invocation("list_messages", Mapping([query |-> StrV("is:unread")]),
                [list |-> Ok([messages |-> << [id |-> "m1"], [id |-> "m2"] >>]),
                 get |-> [m1 |-> Ok(FullMsg("m1")), m2 |-> Fail(HttpErr)]]),
     Invocation("send_message",
                Mapping([to |-> StrV("bob@example.com"), subject |-> StrV("Hi"),
                         body |-> StrV("Hello Bob")]),
                Fail(HttpErr)),
     Invocation("list_events", Mapping(<< >>),
                Ok([items |-> << FullEvent, AllDayEvent >>])),
     Invocation("create_event",
                Mapping([summary |-> StrV("Standup"),
                         start_time |-> StrV("2025-01-02T10:00:00Z"),
                         end_time |-> StrV("2025-01-02T10:30:00Z")]),
                Ok([id |-> "evt_1", htmlLink |-> "https://calendar/evt_1"])),
     Invocation("get_directions",
                Mapping([origin |-> StrV("San Francisco"),
                         destination |-> StrV("Mountain View")]),
                Ok(<< Route(MaxSteps) >>)),
     Invocation("geocode_address", Mapping([address |-> StrV("1600 Amphitheatre")]),
                Ok(<< >>)),
     Invocation("find_nearby_places", Mapping([location |-> StrV("San Francisco")]),
                [geocode |-> Ok(<< Match("Paris, France", 48, 2) >>),
                 places |-> Ok([results |-> << FullPlace, MinimalPlace >>])])}

NewSession == [gmail_service |-> None, calendar_service |-> None,
               gmaps_client |-> None, credentials |-> None]

\* The initialisations that precede the hosting of tools: one run of
\* initialize_google_apis on the new server object, with unexpired
\* credentials when the file loads.
ConcInitEnvs == {e \in InitEnvs : ~e.expired /\ e.refresh_token /\ e.refresh = "ok"}

IdleTask ==
    [st |-> "idle", inv |-> Invocation("", NoArgs, None), k |-> 0,
     start |-> NewSession, result |-> NoResult, calls |-> << >>, overlapped |-> FALSE]

ConcInit ==
    /\ \E e \in ConcInitEnvs :
         LET r == initialize_google_apis(NewSession, e)
         IN  /\ gmail_service = r.session.gmail_service
             /\ calendar_service = r.session.calendar_service
             /\ gmaps_client = r.session.gmaps_client
             /\ credentials = r.session.credentials
             /\ initReturn = [kind |-> r.kind, ret |-> r.ret, fault |-> r.fault,
                              fresh |-> TRUE]
    /\ inits = 1
    /\ pc = "idle"
    /\ tool = ""
    /\ args = NoArgs
    /\ result = NoResult
    /\ calls = << >>
    /\ tasks = [t \in 1..MaxTasks |-> IdleTask]

\* What the handler of task t does from here, given the session as it is now.
Ahead(t) == RunTool(Session, tasks[t].inv.tool, tasks[t].inv.args, tasks[t].inv.env)

\* Another task moves while task u is between two of its remote calls.
Overlap(t, u) ==
    u # t /\ tasks[u].st = "running" /\ tasks[u].k > 0

\* The host starts a handler on a request.
StartTask(t) ==
    /\ tasks[t].st = "idle"
    /\ \E inv \in ConcInvocations :
         tasks' = [tasks EXCEPT ![t] = [IdleTask EXCEPT !.st = "running", !.inv = inv,
                                                        !.start = Session]]
    /\ UNCHANGED <<gmail_service, calendar_service, gmaps_client, credentials,
                   inits, initReturn, pc, tool, args, result, calls>>

\* The handler of task t issues its next remote call, through the handle
\* the session holds at that moment.
IssueCall(t) ==
    /\ tasks[t].st = "running"
    /\ Len(Ahead(t).calls) > tasks[t].k
    /\ tasks' = [u \in DOMAIN tasks |->
                    IF u = t
                    THEN [tasks[t] EXCEPT !.k = @ + 1,
                                          !.calls = Append(@, Ahead(t).calls[tasks[t].k + 1])]
                    ELSE [tasks[u] EXCEPT !.overlapped = @ \/ Overlap(t, u)]]
    /\ UNCHANGED <<gmail_service, calendar_service, gmaps_client, credentials,
                   inits, initReturn, pc, tool, args, result, calls>>

\* The handler of task t has no further remote call to make and returns.
FinishTask(t) ==
    /\ tasks[t].st = "running"
    /\ Len(Ahead(t).calls) <= tasks[t].k
    /\ tasks' = [u \in DOMAIN tasks |->
                    IF u = t
                    THEN [tasks[t] EXCEPT !.st = "done", !.result = Ahead(t).result]
                    ELSE [tasks[u] EXCEPT !.overlapped = @ \/ Overlap(t, u)]]
    /\ gmail_service' = SessionAfterTool(Session, Ahead(t)).gmail_service
    /\ calendar_service' = SessionAfterTool(Session, Ahead(t)).calendar_service
    /\ gmaps_client' = SessionAfterTool(Session, Ahead(t)).gmaps_client
    /\ credentials' = SessionAfterTool(Session, Ahead(t)).credentials
    /\ UNCHANGED <<inits, initReturn, pc, tool, args, result, calls>>

ConcNext ==
    \E t \in 1..MaxTasks :
        \/ StartTask(t)
        \/ IssueCall(t)
        \/ FinishTask(t)

ConcSpec == ConcInit /\ [][ConcNext]_vars

-----------------------------------------------------------------------------
(* The same request served twice by the initialised server, the remote
   clients answering the second time as they did the first. *)

AllInvocations ==
    {Invocation("list_messages", a, r) : a \in ListMessagesArgs, r \in GmailListEnvs}
    \cup {Invocation("send_message", a, out) : a \in SendMessageArgs, out \in SendOutcomes}
    \cup {Invocation("list_events", a, out) : a \in ListEventsArgs, out \in EventsOutcomes}
    \cup {Invocation("create_event", a, out) : a \in CreateEventArgs, out \in InsertOutcomes}
    \cup {Invocation("get_directions", a, out) :
             a \in GetDirectionsArgs, out \in DirectionsOutcomes}
    \cup {Invocation("geocode_address", a, out) : a \in GeocodeArgs, out \in GeocodeOutcomes}
    \cup {Invocation("find_nearby_places", a, r) : a \in FindNearbyArgs, r \in NearbyEnvs}

\* What one run of a handler left behind: the request and what came of it.
Served(inv, out) == [inv |-> inv, result |-> out.result, calls |-> out.calls]

ReplayInit ==
    /\ \E e \in ConcInitEnvs :
         LET r == initialize_google_apis(NewSession, e)
         IN  /\ gmail_service = r.session.gmail_service
             /\ calendar_service = r.session.calendar_service
             /\ gmaps_client = r.session.gmaps_client
             /\ credentials = r.session.credentials
             /\ initReturn = [kind |-> r.kind, ret |-> r.ret, fault |-> r.fault,
                              fresh |-> TRUE]
    /\ inits = 1
    /\ pc = "idle"
    /\ tool = ""
    /\ args = NoArgs
    /\ result = NoResult
    /\ calls = << >>
    /\ tasks = << >>

\* A handler runs on a request, or runs once more on the request it just
\* served, and leaves the session as handlers do.
Serve(inv) ==
    LET out == RunTool(Session, inv.tool, inv.args, inv.env)
    IN  /\ pc' = "called"
        /\ tool' = inv.tool
        /\ args' = inv.args
        /\ result' = out.result
        /\ calls' = out.calls
        /\ tasks' = Append(tasks, Served(inv, out))
        /\ gmail_service' = SessionAfterTool(Session, out).gmail_service
        /\ calendar_service' = SessionAfterTool(Session, out).calendar_service
        /\ gmaps_client' = SessionAfterTool(Session, out).gmaps_client
        /\ credentials' = SessionAfterTool(Session, out).credentials
        /\ UNCHANGED <<inits, initReturn>>

FirstCall ==
    /\ pc = "idle"
    /\ \E inv \in AllInvocations : Serve(inv)

SameCallAgain ==
    /\ pc = "called"
    /\ Len(tasks) = 1
    /\ Serve(tasks[1].inv)

ReplayNext == FirstCall \/ SameCallAgain

ReplaySpec == ReplayInit /\ [][ReplayNext]_vars

-----------------------------------------------------------------------------
(* The operations of the server object called directly, as the tests and
   the examples call them after initialize_google_apis. *)

\* result = await server.<operation>(...): what the await gave, a value or
\* an exception, is kept as the only element of tasks.
Direct(name, out) ==
    /\ pc = "idle"
    /\ pc' = "called"
    /\ tool' = name
    /\ calls' = out.calls
    /\ tasks' = << out >>
    /\ UNCHANGED <<gmail_service, calendar_service, gmaps_client, credentials,
                   inits, initReturn, args, result>>

DirectListMessages ==
    \E q \in {"", "is:unread"}, r \in GmailListEnvs :
        Direct("list_gmail_messages",
               list_gmail_messages(gmail_service, StrV(q), IntV(3), r))

DirectSendMessage ==
    \E out \in SendOutcomes :
        Direct("send_gmail_message",
               send_gmail_message(gmail_service, StrV("bob@example.com"), StrV("Hi"),
                                  StrV("Hello Bob"), out))

DirectListEvents ==
    \E out \in EventsOutcomes :
        Direct("list_calendar_events",
               list_calendar_events(calendar_service, StrV("primary"), IntV(3), out))

DirectCreateEvent ==
    \E out \in InsertOutcomes :
        Direct("create_calendar_event",
               create_calendar_event(calendar_service, StrV("Standup"),
                                     StrV("2025-01-02T10:00:00Z"),
                                     StrV("2025-01-02T10:30:00Z"),
                                     StrV("daily sync"), StrV("Room 1"),
                                     ListV(<< "team@example.com" >>), out))

DirectGetDirections ==
    \E out \in DirectionsOutcomes :
        Direct("get_directions",
               get_directions(gmaps_client, StrV("San Francisco"), StrV("Mountain View"),
                              StrV("driving"), out))

DirectGeocodeAddress ==
    \E out \in GeocodeOutcomes :
        Direct("geocode_address",
               geocode_address(gmaps_client, StrV("1600 Amphitheatre"), out))

DirectFindNearbyPlaces ==
    \E r \in NearbyEnvs :
        Direct("find_nearby_places",
               find_nearby_places(gmaps_client, StrV("San Francisco"), IntV(5000),
                                  StrV("restaurant"), r))

DirectNext ==
    \/ DirectListMessages
    \/ DirectSendMessage
    \/ DirectListEvents
    \/ DirectCreateEvent
    \/ DirectGetDirections
    \/ DirectGeocodeAddress
    \/ DirectFindNearbyPlaces

DirectSpec == ReplayInit /\ [][DirectNext]_vars

-----------------------------------------------------------------------------
(* main(): initialise, warn if that failed, then run the stdio server,
   which hosts the handlers. *)

MainInit ==
    /\ gmail_service = None
    /\ calendar_service = None
    /\ gmaps_client = None
    /\ credentials = None
    /\ inits = 0
    /\ initReturn = NoInit
    /\ pc = "main"
    /\ tool = ""
    /\ args = NoArgs
    /\ result = NoResult
    /\ calls = << >>
    /\ tasks = << >>

\* success = await server.initialize_google_apis(...): the call is made.
MainCallInit ==
    /\ pc = "main"
    /\ pc' = "initializing"
    /\ UNCHANGED <<gmail_service, calendar_service, gmaps_client, credentials,
                   inits, initReturn, tool, args, result, calls, tasks>>

\* The awaited initialisation ends: it returned True or False, or it
\* raised, and then main ends with it.
MainInitEnds ==
    /\ pc = "initializing"
    /\ \E e \in InitEnvs :
         LET r == initialize_google_apis(Session, e)
         IN  /\ gmail_service' = r.session.gmail_service
             /\ calendar_service' = r.session.calendar_service
             /\ gmaps_client' = r.session.gmaps_client
             /\ credentials' = r.session.credentials
             /\ initReturn' = [kind |-> r.kind, ret |-> r.ret, fault |-> r.fault,
                               fresh |-> TRUE]
             /\ pc' = IF r.kind = "return" THEN "returned" ELSE "crashed"
    /\ inits' = inits + 1
    /\ UNCHANGED <<tool, args, result, calls, tasks>>

\* A variant of main that returns when initialisation failed.
StartsServerOnlyOnSuccess(success) == success

\* `if not success: logger.warning(...)` falls through to the server start.
StartsServer(success) == TRUE

\* async with stdio_server() ...: await run_server(...)
MainStartServer ==
    /\ pc = "returned"
    /\ StartsServer(initReturn.ret)
    /\ pc' = "serving"
    /\ UNCHANGED <<gmail_service, calendar_service, gmaps_client, credentials,
                   inits, initReturn, tool, args, result, calls, tasks>>

\* The running server hands a request to its handler.
MainHandle ==
    /\ pc = "serving"
    /\ \E inv \in AllInvocations :
         LET out == RunTool(Session, inv.tool, inv.args, inv.env)
         IN  /\ tool' = inv.tool
             /\ args' = inv.args
             /\ result' = out.result
             /\ calls' = out.calls
             /\ gmail_service' = SessionAfterTool(Session, out).gmail_service
             /\ calendar_service' = SessionAfterTool(Session, out).calendar_service
             /\ gmaps_client' = SessionAfterTool(Session, out).gmaps_client
             /\ credentials' = SessionAfterTool(Session, out).credentials
    /\ pc' = "called"
    /\ UNCHANGED <<inits, initReturn, tasks>>

\* The result is sent and the server waits for the next request.
MainNextRequest ==
    /\ pc = "called"
    /\ pc' = "serving"
    /\ tool' = ""
    /\ args' = NoArgs
    /\ result' = NoResult
    /\ calls' = << >>
    /\ UNCHANGED <<gmail_service, calendar_service, gmaps_client, credentials,
                   inits, initReturn, tasks>>

MainNext ==
    \/ MainCallInit
    \/ MainInitEnds
    \/ MainStartServer
    \/ MainHandle
    \/ MainNextRequest

MainSpec == MainInit /\ [][MainNext]_vars

-----------------------------------------------------------------------------
(* The tool surface, as the handlers define it. *)

Tools == {"list_messages", "send_message", "list_events", "create_event",
          "get_directions", "geocode_address", "find_nearby_places"}

\* The arguments each handler insists on before it calls its operation.
Required(name) ==
    CASE name = "send_message"       -> {"to", "subject", "body"}
      [] name = "create_event"       -> {"summary", "start_time", "end_time"}
      [] name = "get_directions"     -> {"origin", "destination"}
      [] name = "geocode_address"    -> {"address"}
      [] name = "find_nearby_places" -> {"location"}
      [] OTHER                       -> {}

\* The session handle each operation tests, and the service it names.
HandleOf(name) ==
    CASE name \in {"list_messages", "send_message"} -> gmail_service
      [] name \in {"list_events", "create_event"}   -> calendar_service
      [] OTHER                                      -> gmaps_client

ServiceOf(name) ==
    CASE name \in {"list_messages", "send_message"} -> "Gmail"
      [] name \in {"list_events", "create_event"}   -> "Calendar"
      [] OTHER                                      -> "Maps"

\* The required arguments absent from the mapping of an invocation.
Missing(name, a) ==
    IF a.t = "None" THEN Required(name)
    ELSE {k \in Required(name) : k \notin DOMAIN a.v}

\* An invocation whose required arguments all pass the handler's test.
ValidArgs(name, a) ==
    /\ a.t = "dict"
    /\ \A k \in Required(name) : k \in DOMAIN a.v /\ Truthy(a.v[k])

StartsWith(text, prefix) ==
    Len(text) >= Len(prefix) /\ SubSeq(text, 1, Len(prefix)) = prefix

Contains(text, sub) ==
    \E i \in 1..(Len(text) - Len(sub) + 1) : SubSeq(text, i, i + Len(sub) - 1) = sub

IsErrorResult(res) == res.kind = "result" /\ StartsWith(res.text, "Error: ")

Raised(i) == calls[i].out.kind = "raise"

-----------------------------------------------------------------------------
(* Properties. *)

\* C1: every tool invocation, whatever the arguments and whatever the remote
\* client does (a raised exception of any class, a malformed response),
\* returns a CallToolResult: no exception escapes, and a raised fault is
\* reported as "Error: " followed by the exception's own description.
C1_NoFaultEscapes ==
    pc = "called" =>
        /\ result.kind = "result"
        /\ \A i \in 1..Len(calls) :
              Raised(i) => result.text = "Error: " \o calls[i].out.exc.msg
        /\ args = NoArgs => result.text = "Error: " \o AttributeErrorGet.msg

C1_Witness ==
    /\ pc = "called"
    /\ tool = "list_messages"
    /\ Len(calls) = 2
    /\ Raised(2)
    /\ calls[2].out.exc.cls = "TransportError"
    /\ result.text = "Error: connection reset"

\* C2: a validly-argumented invocation of a tool whose client handle is
\* None returns exactly "Error: <service> service not initialized" and
\* issues no remote call.
C2_UnsetClient ==
    (pc = "called" /\ ValidArgs(tool, args) /\ HandleOf(tool) = None) =>
        /\ result = CallToolResult("Error: " \o ServiceOf(tool) \o " service not initialized")
        /\ calls = << >>

C2_Witness ==
    /\ pc = "called"
    /\ tool = "find_nearby_places"
    /\ ValidArgs(tool, args)
    /\ gmail_service # None
    /\ gmaps_client = None
    /\ result.text = "Error: Maps service not initialized"

\* C3: an invocation that leaves out a required argument returns an error
\* result and issues no remote call, whether or not the session is
\* initialized.
C3_MissingRequired ==
    (pc = "called" /\ Missing(tool, args) # {}) =>
        /\ IsErrorResult(result)
        /\ calls = << >>

C3_Witness ==
    /\ pc = "called"
    /\ tool = "create_event"
    /\ calendar_service # None
    /\ Missing(tool, args) = {"end_time"}
    /\ IsErrorResult(result)

\* The required arguments the call supplies are all non-empty values.
SuppliedNonEmpty(name, a) ==
    \A k \in Required(name) \cap DOMAIN a.v : Truthy(a.v[k])

\* C4 as claimed: the error names exactly the required parameters that are
\* absent from the call (taken over the calls whose supplied required
\* arguments are non-empty, so that absence is the only defect).
C4_ListsOnlyMissing ==
    (pc = "called" /\ args.t = "dict" /\ Missing(tool, args) # {}
        /\ SuppliedNonEmpty(tool, args)) =>
        \A p \in Required(tool) :
            Contains(result.text, p) <=> p \in Missing(tool, args)

\* C4 as amended: one error, the handler's fixed message, names every
\* required parameter of the tool, and so every missing one, whichever
\* subset is absent.
C4_NamesAllRequired ==
    (pc = "called" /\ args.t = "dict" /\ Missing(tool, args) # {}) =>
        /\ IsErrorResult(result)
        /\ \A p \in Required(tool) : Contains(result.text, p)
        /\ Contains(result.text, "required")

C4_Witness ==
    /\ pc = "called"
    /\ tool = "send_message"
    /\ args.t = "dict"
    /\ Missing(tool, args) = {"to"}
    /\ result.text = "Error: to, subject, and body are required"

\* C5: initialize_google_apis never raises; it returns False when the
\* credentials file is missing or malformed, when the refresh fails and when
\* a client constructor fails, and True only when all three were built.
C5_InitNeverRaises ==
    pc = "inited" =>
        /\ initReturn.kind = "return"
        /\ initReturn.ret <=> initReturn.fault = "none"

C5_Witness ==
    /\ pc = "inited"
    /\ initReturn.fault = "refresh"
    /\ initReturn.kind = "return"
    /\ ~initReturn.ret

\* The first initialisation of the session returned False.
FreshInitFailed ==
    /\ initReturn.kind = "return"
    /\ initReturn.fresh
    /\ ~initReturn.ret

\* C6 as claimed: once initialize_google_apis has returned False on a fresh
\* session, every validly-argumented tool reports its service as not
\* initialized and issues no remote call.
C6_DegradedEveryTool ==
    (pc = "called" /\ FreshInitFailed /\ ValidArgs(tool, args)) =>
        /\ result = CallToolResult("Error: " \o ServiceOf(tool) \o " service not initialized")
        /\ calls = << >>

\* The tools whose client had not been built when initialisation failed at
\* the given step.
Unbuilt(fault) ==
    CASE fault = "maps"     -> {"get_directions", "geocode_address", "find_nearby_places"}
      [] fault = "calendar" -> Tools \ {"list_messages", "send_message"}
      [] OTHER              -> Tools

\* C6 as amended: once initialize_google_apis has returned False on a fresh
\* session, every tool whose client had not been built when initialisation
\* failed reports its service as not initialized and issues no remote call;
\* the clients built before the failing step stay in place.
C6_DegradedUnbuilt ==
    (pc = "called" /\ FreshInitFailed /\ ValidArgs(tool, args)) =>
        /\ tool \in Unbuilt(initReturn.fault) =>
              /\ result = CallToolResult("Error: " \o ServiceOf(tool)
                                         \o " service not initialized")
              /\ calls = << >>
        /\ tool \notin Unbuilt(initReturn.fault) => HandleOf(tool) # None

C6_Witness ==
    /\ pc = "called"
    /\ FreshInitFailed
    /\ initReturn.fault = "calendar"
    /\ tool = "list_events"
    /\ ValidArgs(tool, args)
    /\ result.text = "Error: Calendar service not initialized"

\* C7: each of the three handles is None or a client whose construction
\* completed; nothing partially constructed is ever stored.
IsUsable(h) == h = None \/ (h.t = "client" /\ h.complete)

C7_HandlesNoneOrBuilt ==
    /\ IsUsable(gmail_service)
    /\ IsUsable(calendar_service)
    /\ IsUsable(gmaps_client)

C7_Witness ==
    /\ pc = "inited"
    /\ inits = 2
    /\ initReturn.fault = "calendar"
    /\ gmail_service # None
    /\ calendar_service = None

\* C8: find_nearby_places geocodes, then searches: no match gives exactly
\* "Error: Location not found" with no places_nearby call; a match with
\* coordinates gives exactly one places_nearby call, at the first match's
\* coordinates.
C8_GeocodeThenSearch ==
    (pc = "called" /\ tool = "find_nearby_places" /\ calls # << >>
        /\ calls[1].out.kind = "ok") =>
        LET matches == calls[1].out.value
        IN  /\ calls[1].op = "maps.geocode"
            /\ matches = << >> =>
                  /\ result = CallToolResult("Error: Location not found")
                  /\ Len(calls) = 1
            /\ (matches # << >> /\ "geometry" \in DOMAIN matches[1]) =>
                  /\ Len(calls) = 2
                  /\ calls[2].op = "maps.places_nearby"
                  /\ calls[2].args.location = matches[1].geometry.location

C8_Witness ==
    /\ pc = "called"
    /\ tool = "find_nearby_places"
    /\ Len(calls) = 1
    /\ calls[1].out.kind = "ok"
    /\ calls[1].out.value = << >>
    /\ result.text = "Error: Location not found"

\* C9: no retries: a remote call that fails is the last call of its
\* invocation, and the invocation ends in one error result.
C9_NoRetries ==
    pc = "called" =>
        \A i \in 1..Len(calls) :
            Raised(i) => i = Len(calls) /\ IsErrorResult(result)

C9_Witness ==
    /\ pc = "called"
    /\ tool = "list_messages"
    /\ Len(calls) = 2
    /\ ~Raised(1)
    /\ Raised(2)
    /\ Len(calls[1].out.value.messages) = 2
    /\ IsErrorResult(result)

\* C10 as claimed: an invocation issues at most one remote call, and
\* find_nearby_places at most two.
C10_AtMostOneCall ==
    pc = "called" =>
        Len(calls) <= (IF tool = "find_nearby_places" THEN 2 ELSE 1)

\* The most remote calls an invocation of the tool may issue.
CallBudget ==
    CASE tool = "find_nearby_places" -> 2
      [] tool = "list_messages" /\ calls # << >> /\ ~Raised(1) ->
            1 + Len(Get(calls[1].out.value, "messages", << >>))
      [] OTHER -> 1

\* C10 as amended: an invocation issues at most one remote call, except
\* find_nearby_places (at most two: geocode, then search) and list_messages
\* (one list call, then at most one get per listed message).
C10_CallBudget ==
    pc = "called" => Len(calls) <= CallBudget

C10_Witness ==
    /\ pc = "called"
    /\ tool = "list_messages"
    /\ Len(calls) = 3
    /\ StartsWith(result.text, "Recent Gmail Messages:")

-----------------------------------------------------------------------------
(* Reading a rendered text back: its lines, and the lines of one field. *)

RECURSIVE LinesFrom(_, _)
LinesFrom(text, start) ==
    LET nl == {i \in start..Len(text) : SubSeq(text, i, i) = "\n"}
    IN  IF nl = {}
        THEN IF start > Len(text) THEN << >> ELSE << SubSeq(text, start, Len(text)) >>
        ELSE LET j == CHOOSE i \in nl : \A k \in nl : i <= k
             IN  << SubSeq(text, start, j - 1) >> \o LinesFrom(text, j + 1)

Lines(text) == LinesFrom(text, 1)

\* The values of the lines "<label><value>" of a text, in the order they appear.
FieldLines(text, label) ==
    LET sel == SelectSeq(Lines(text), LAMBDA l : StartsWith(l, label))
    IN  [i \in DOMAIN sel |-> SubSeq(sel[i], Len(label) + 1, Len(sel[i]))]

\* The invocation returned its success text.
Succeeded(name) ==
    /\ pc = "called"
    /\ tool = name
    /\ result.kind = "result"
    /\ ~StartsWith(result.text, "Error: ")

\* C11: the records of a rendered list appear in the order in which the
\* remote client returned them, one entry per record, none dropped,
\* duplicated or moved; the steps of a route are numbered 1..n in that order.
C11_OrderPreserved ==
    /\ Succeeded("list_messages") =>
          LET listing == Get(calls[1].out.value, "messages", << >>)
          IN  /\ Len(calls) = 1 + Len(listing)
              /\ \A i \in DOMAIN listing : calls[i + 1].args.id = listing[i].id
              /\ FieldLines(result.text, "Snippet: ")
                    = [i \in DOMAIN listing |-> Get(calls[i + 1].out.value, "snippet", "")]
    /\ Succeeded("list_events") =>
          LET items == Get(calls[1].out.value, "items", << >>)
          IN  FieldLines(result.text, "Title: ")
                = [i \in DOMAIN items |-> Get(items[i], "summary", "No Title")]
    /\ Succeeded("find_nearby_places") =>
          LET results == Get(calls[2].out.value, "results", << >>)
          IN  FieldLines(result.text, "Name: ")
                = [i \in DOMAIN results |-> results[i].name]
    /\ Succeeded("get_directions") =>
          LET steps == calls[1].out.value[1].legs[1].steps
              ls == Lines(result.text)
          IN  /\ Len(ls) = 5 + Len(steps)
              /\ \A i \in DOMAIN steps :
                    StartsWith(ls[5 + i],
                               ToString(i) \o ". " \o steps[i].html_instructions \o " (")

C11_Witness ==
    /\ Succeeded("list_events")
    /\ Get(calls[1].out.value, "items", << >>) = << AllDayEvent, FullEvent >>
    /\ FieldLines(result.text, "Title: ") = << "No Title", "Standup" >>

\* The message carries a header of that name.
HasHeader(message, name) ==
    \E i \in 1..Len(message.payload.headers) : message.payload.headers[i].name = name

\* No remote call of the invocation raised.
NoneRaised == \A i \in 1..Len(calls) : ~Raised(i)

\* C12: a message without a Subject header renders "Subject: No Subject",
\* without a From header "From: Unknown", without a Date header an empty
\* date; a place without a rating renders "Rating: N/A"; and the invocation
\* succeeds all the same.
C12_DefaultSubstitution ==
    /\ (pc = "called" /\ tool = "list_messages" /\ calls # << >> /\ NoneRaised
            /\ \A i \in 2..Len(calls) : "payload" \in DOMAIN calls[i].out.value) =>
          /\ Succeeded("list_messages")
          /\ \A i \in 1..(Len(calls) - 1) :
                LET message == calls[i + 1].out.value
                IN  /\ ~HasHeader(message, "Subject") =>
                          FieldLines(result.text, "Subject: ")[i] = "No Subject"
                    /\ ~HasHeader(message, "From") =>
                          FieldLines(result.text, "From: ")[i] = "Unknown"
                    /\ ~HasHeader(message, "Date") =>
                          FieldLines(result.text, "Date: ")[i] = ""
    /\ (pc = "called" /\ tool = "find_nearby_places" /\ Len(calls) = 2 /\ NoneRaised
            /\ \A i \in DOMAIN Get(calls[2].out.value, "results", << >>) :
                  {"name", "place_id"} \subseteq DOMAIN calls[2].out.value.results[i]) =>
          /\ Succeeded("find_nearby_places")
          /\ \A i \in DOMAIN Get(calls[2].out.value, "results", << >>) :
                "rating" \notin DOMAIN calls[2].out.value.results[i] =>
                    FieldLines(result.text, "Rating: ")[i] = "N/A"

C12_Witness ==
    /\ Succeeded("list_messages")
    /\ Len(calls) = 3
    /\ calls[2].out.value = FullMsg("m1")
    /\ calls[3].out.value = BareMsg("m2")
    /\ FieldLines(result.text, "Subject: ") = << "subject of m1", "No Subject" >>
    /\ FieldLines(result.text, "From: ")[2] = "Unknown"

\* The tools whose success text is mapped from upstream records.
MapperTools == {"list_messages", "list_events", "get_directions",
                "geocode_address", "find_nearby_places"}

\* The operation reached its mapper: the client answered every call, and
\* the geocoder / router found something.
Mapped ==
    /\ pc = "called"
    /\ tool \in MapperTools
    /\ calls # << >>
    /\ NoneRaised
    /\ tool \in {"get_directions", "geocode_address", "find_nearby_places"} =>
          calls[1].out.value # << >>

\* Every record the mapper read carries the fields the code takes by
\* subscript (message['payload'], event['start'] / ['end'] / ['id'],
\* place['name'] / ['place_id'], route['legs'], match['geometry']).
Subscripted ==
    CASE tool = "list_messages" ->
            \A i \in 2..Len(calls) : "payload" \in DOMAIN calls[i].out.value
      [] tool = "list_events" ->
            \A i \in DOMAIN Get(calls[1].out.value, "items", << >>) :
                {"start", "end", "id"} \subseteq DOMAIN calls[1].out.value.items[i]
      [] tool = "get_directions" -> "legs" \in DOMAIN calls[1].out.value[1]
      [] tool = "geocode_address" -> "geometry" \in DOMAIN calls[1].out.value[1]
      [] tool = "find_nearby_places" ->
            /\ "geometry" \in DOMAIN calls[1].out.value[1]
            /\ Len(calls) = 2
            /\ \A i \in DOMAIN Get(calls[2].out.value, "results", << >>) :
                  {"name", "place_id"} \subseteq DOMAIN calls[2].out.value.results[i]
      [] OTHER -> TRUE

SubscriptedFields == {"payload", "start", "end", "id", "name", "place_id", "legs", "geometry"}

\* C13 as claimed: whatever fields an upstream record lacks, the mapper
\* substitutes defaults and the invocation returns its success text.
C13_AnyAbsentFieldTolerated ==
    Mapped => Succeeded(tool)

\* C13 as amended: the fields read with a default (the Subject, From and
\* Date headers and the snippet of a message; the summary, description,
\* location, attendees and dateTime of an event; the vicinity, rating and
\* types of a place; the messages / items / results list itself) may be
\* absent and the invocation succeeds; a record lacking a field the code
\* takes by subscript makes the invocation return "Error: '<field>'".
C13_OptionalFieldsTolerated ==
    Mapped =>
        /\ Subscripted => Succeeded(tool)
        /\ ~Subscripted =>
              \E f \in SubscriptedFields : result = CallToolResult("Error: '" \o f \o "'")

C13_Witness ==
    /\ Mapped
    /\ Succeeded("find_nearby_places")
    /\ Get(calls[2].out.value, "results", << >>) = << MinimalPlace >>
    /\ FieldLines(result.text, "Address: ") = << "" >>
    /\ FieldLines(result.text, "Types: ") = << "" >>

\* The geocoder or the router answered with an empty list.
EmptyAnswer ==
    /\ tool \in {"get_directions", "geocode_address", "find_nearby_places"}
    /\ calls # << >>
    /\ ~Raised(1)
    /\ calls[1].out.value = << >>

\* The response to a write lacks a field the operation reads by subscript
\* (sent_message['id'] / ['threadId'], event['id'] / ['htmlLink']).
Unacknowledged ==
    /\ calls # << >>
    /\ ~Raised(1)
    /\ \/ tool = "send_message" /\ ~({"id", "threadId"} \subseteq DOMAIN calls[1].out.value)
       \/ tool = "create_event" /\ ~({"id", "htmlLink"} \subseteq DOMAIN calls[1].out.value)

\* The ways an invocation fails: validation, unset client, remote failure,
\* empty result, mapping fault.
Failed ==
    \/ ~ValidArgs(tool, args)
    \/ HandleOf(tool) = None
    \/ \E i \in 1..Len(calls) : Raised(i)
    \/ EmptyAnswer
    \/ Mapped /\ ~Subscripted
    \/ Unacknowledged

\* C14: every invocation returns one text result, and the text begins with
\* "Error: " exactly when the invocation failed (validation, unset client,
\* remote failure, empty result or mapping fault).
C14_ErrorIffFailed ==
    pc = "called" =>
        /\ result.kind = "result"
        /\ IsErrorResult(result) <=> Failed

C14_Witness ==
    /\ pc = "called"
    /\ tool = "geocode_address"
    /\ ValidArgs(tool, args)
    /\ gmaps_client # None
    /\ EmptyAnswer
    /\ Failed
    /\ IsErrorResult(result)

\* C15: a remote call that raises is reported as "Error: " followed by the
\* exception's message unchanged; an empty directions list gives
\* "Error: No directions found" and an empty geocode result gives
\* "Error: Address not found" from geocode_address.
C15_MessageVerbatim ==
    pc = "called" =>
        /\ \A i \in 1..Len(calls) :
              Raised(i) => result = CallToolResult("Error: " \o calls[i].out.exc.msg)
        /\ (tool = "get_directions" /\ EmptyAnswer) =>
              result = CallToolResult("Error: No directions found")
        /\ (tool = "geocode_address" /\ EmptyAnswer) =>
              result = CallToolResult("Error: Address not found")

C15_Witness ==
    /\ pc = "called"
    /\ tool = "get_directions"
    /\ EmptyAnswer
    /\ calls[1].op = "maps.directions"
    /\ result.text = "Error: No directions found"

C15_WitnessRaised ==
    /\ pc = "called"
    /\ tool = "send_message"
    /\ Len(calls) = 1
    /\ Raised(1)
    /\ calls[1].out.exc = HttpErr
    /\ result.text = "Error: " \o HttpErr.msg

\* C16: create_event with summary, start_time and end_time, against an
\* initialized calendar client whose insert call succeeds and reports the
\* id X, returns exactly "Event created successfully! Event ID: X".
C16_CreatedReportsId ==
    (/\ pc = "called"
     /\ tool = "create_event"
     /\ ValidArgs(tool, args)
     /\ calendar_service # None
     /\ Len(calls) = 1
     /\ ~Raised(1)
     /\ "id" \in DOMAIN calls[1].out.value) =>
        result = CallToolResult("Event created successfully! Event ID: "
                                \o calls[1].out.value.id)

\* The value of an optional parameter of the invocation: the supplied one,
\* or the default the tool declares for it.
Declared(name, default) ==
    IF args.t = "dict" /\ name \in DOMAIN args.v THEN args.v[name] ELSE default

\* The event resource handed to events().insert for a location and a list
\* of attendees: an empty location and an empty list leave their key out.
CarriesLocation(body, location) ==
    IF location.v = "" THEN "location" \notin DOMAIN body
    ELSE "location" \in DOMAIN body /\ body.location = location.v

CarriesAttendees(body, attendees) ==
    IF attendees.v = << >> THEN "attendees" \notin DOMAIN body
    ELSE /\ "attendees" \in DOMAIN body
         /\ body.attendees = [j \in DOMAIN attendees.v |-> [email |-> attendees.v[j]]]

\* C17: the remote call of every tool carries, for each optional parameter,
\* the supplied value unchanged, or the declared default when the parameter
\* is omitted: query "", max_results 10, calendar_id "primary",
\* description "", location "", attendees [], mode "driving", radius 5000,
\* place_type None.
C17_DefaultsApplied ==
    (pc = "called" /\ calls # << >>) =>
        /\ tool = "list_messages" =>
              /\ calls[1].args.q = Declared("query", StrV(""))
              /\ calls[1].args.maxResults = Declared("max_results", IntV(10))
        /\ tool = "list_events" =>
              /\ calls[1].args.calendarId = Declared("calendar_id", StrV("primary"))
              /\ calls[1].args.maxResults = Declared("max_results", IntV(10))
        /\ tool = "get_directions" =>
              calls[1].args.mode = Declared("mode", StrV("driving"))
        /\ (tool = "find_nearby_places" /\ Len(calls) = 2) =>
              /\ calls[2].args.radius = Declared("radius", IntV(5000))
              /\ calls[2].args.type = Declared("place_type", None)
        /\ tool = "create_event" =>
              /\ calls[1].args.body.description = Declared("description", StrV("")).v
              /\ CarriesLocation(calls[1].args.body, Declared("location", StrV("")))
              /\ Declared("attendees", ListV(<< >>)).t = "list" =>
                    CarriesAttendees(calls[1].args.body, Declared("attendees", ListV(<< >>)))

C17_Witness ==
    /\ pc = "called"
    /\ tool = "find_nearby_places"
    /\ args.t = "dict"
    /\ DOMAIN args.v = {"location"}
    /\ Len(calls) = 2
    /\ calls[2].args.radius = IntV(5000)
    /\ calls[2].args.type = None

C17_WitnessSupplied ==
    /\ pc = "called"
    /\ tool = "create_event"
    /\ args.t = "dict"
    /\ "attendees" \in DOMAIN args.v
    /\ args.v.attendees = ListV(<< "a@x.io", " b@x.io" >>)
    /\ calls # << >>
    /\ calls[1].args.body.location = "Room 1"
    /\ Len(calls[1].args.body.attendees) = 2

\* C18: whether attendees is supplied as a comma-separated string or as a
\* list, the event sent to the calendar client carries one attendee entry
\* per address: a string gives one entry more than it has commas, a list
\* one entry per item, and no entry keeps a comma or surrounding blanks.
C18_AttendeesNormalized ==
    (/\ pc = "called"
     /\ tool = "create_event"
     /\ calls # << >>
     /\ "attendees" \in DOMAIN args.v
     /\ Truthy(args.v.attendees)) =>
        LET given == args.v.attendees
            sent == Get(calls[1].args.body, "attendees", << >>)
            commas == {i \in 1..Len(given.v) : SubSeq(given.v, i, i) = ","}
        IN  /\ given.t = "str" => Len(sent) = Cardinality(commas) + 1
            /\ given.t = "list" => Len(sent) = Len(given.v)
            /\ \A j \in DOMAIN sent :
                  LET email == sent[j].email
                  IN  /\ email # ""
                      /\ ~Contains(email, ",")
                      /\ SubSeq(email, 1, 1) # " "
                      /\ SubSeq(email, Len(email), Len(email)) # " "

\* C19: no tool invocation changes gmail_service, calendar_service,
\* gmaps_client or credentials, whatever its arguments and its outcome; a
\* step that changes one of them is a run of initialize_google_apis.
C19_OnlyInitWritesSession ==
    [][/\ pc' = "called" =>
             UNCHANGED <<gmail_service, calendar_service, gmaps_client, credentials>>
       /\ <<gmail_service, calendar_service, gmaps_client, credentials>>'
             # <<gmail_service, calendar_service, gmaps_client, credentials>>
          => pc' = "inited"]_vars

C19_Witness ==
    /\ pc = "called"
    /\ tool = "send_message"
    /\ gmail_service # None
    /\ credentials # None
    /\ calls # << >>
    /\ Raised(1)
    /\ IsErrorResult(result)

\* The invocation of task t run alone, against the session it started on
\* and the same remote responses.
Alone(t) == RunTool(tasks[t].start, tasks[t].inv.tool, tasks[t].inv.args, tasks[t].inv.env)

C23_OperationsNeverRaise ==
    (pc = "called" /\ tasks # << >>) => tasks[1].kind = "return"

\* C24: in main the server serves only after initialize_google_apis has
\* returned, it is started whether that returned True or False, and no
\* handler runs while the initialisation is still in progress.
C24_InitBeforeServing ==
    /\ pc \in {"serving", "called"} => (initReturn.kind = "return" /\ inits = 1)
    /\ pc = "returned" => ENABLED MainStartServer
    /\ pc \in {"main", "initializing"} =>
          (tool = "" /\ result = NoResult /\ calls = << >>)
    /\ pc # "crashed"

C24_Witness ==
    /\ pc = "called"
    /\ initReturn.kind = "return"
    /\ ~initReturn.ret
    /\ tool = "geocode_address"
    /\ IsErrorResult(result)

\* The first initialisation of the session has just returned.
FreshInitReturned ==
    /\ pc = "inited"
    /\ initReturn.fresh
    /\ initReturn.kind = "return"

AllBuilt == gmail_service # None /\ calendar_service # None /\ gmaps_client # None
NoneBuilt == gmail_service = None /\ calendar_service = None /\ gmaps_client = None

\* C25 as claimed: on a fresh session initialize_google_apis returns True
\* exactly when all three handles are set afterwards, and whenever it
\* returns False all three handles are None.
C25_AllOrNothing ==
    FreshInitReturned =>
        /\ initReturn.ret <=> AllBuilt
        /\ ~initReturn.ret => NoneBuilt

\* C25 as amended: on a fresh session initialize_google_apis returns True
\* exactly when all three handles are set afterwards; when it returns False
\* the handles built before the failing step stay set (gmail_service when
\* the Calendar client fails; gmail_service and calendar_service when the
\* Maps client fails) and the handles from the failing step on are None.
C25_TrueIffAllBuilt ==
    FreshInitReturned =>
        /\ initReturn.ret <=> AllBuilt
        /\ ~initReturn.ret =>
              /\ gmaps_client = None
              /\ gmail_service # None <=> initReturn.fault \in {"calendar", "maps"}
              /\ calendar_service # None <=> initReturn.fault = "maps"

C25_Witness ==
    /\ FreshInitReturned
    /\ ~initReturn.ret
    /\ initReturn.fault = "maps"
    /\ gmail_service = Client("gmail")
    /\ calendar_service = Client("calendar")
    /\ gmaps_client = None

\* C26: a write tool reports an error only if the remote write did not take
\* effect: when the send or insert call returned, the tool returns its
\* success confirmation, whether or not the response carries threadId or
\* htmlLink.
C26_WriteDoneThenConfirmed ==
    (/\ pc = "called"
     /\ tool \in {"send_message", "create_event"}
     /\ calls # << >>
     /\ ~Raised(1)
     /\ "id" \in DOMAIN calls[1].out.value) =>
        /\ ~IsErrorResult(result)
        /\ Contains(result.text, calls[1].out.value.id)

\* C27: whenever initialize_google_apis returns True the stored credentials
\* are not expired: initialisation does not succeed with a credential that
\* is expired and cannot be refreshed.
C27_TrueThenFreshCredentials ==
    (pc = "inited" /\ initReturn.kind = "return" /\ initReturn.ret) =>
        /\ credentials # None
        /\ ~credentials.expired

\* The text each handler returns when its test of the required arguments
\* fails.
RequiredError(name) ==
    CASE name = "send_message"       -> "Error: to, subject, and body are required"
      [] name = "create_event"       -> "Error: summary, start_time, and end_time are required"
      [] name = "get_directions"     -> "Error: origin and destination are required"
      [] name = "geocode_address"    -> "Error: address is required"
      [] name = "find_nearby_places" -> "Error: location is required"
      [] OTHER                       -> "Error: "

\* The invocation was turned down by the handler's test of its required
\* arguments.
Rejected == result = CallToolResult(RequiredError(tool))

\* C28 as claimed: validation rejects an invocation exactly when a required
\* parameter is absent from the argument mapping; a required parameter that
\* is present, with any value, an empty string included, is never reported
\* as missing.
C28_RejectsOnlyAbsent ==
    (pc = "called" /\ args.t = "dict" /\ Required(tool) # {}) =>
        (Rejected <=> Missing(tool, args) # {})

\* C28 as amended: validation rejects an invocation exactly when a required
\* parameter is absent from the argument mapping or present with an empty
\* (falsy) value; an invocation whose required parameters are all present
\* and non-empty is never rejected by validation.
C28_RejectsAbsentOrEmpty ==
    (pc = "called" /\ args.t = "dict" /\ Required(tool) # {}) =>
        (Rejected <=> ~ValidArgs(tool, args))

C28_Witness ==
    /\ pc = "called"
    /\ tool = "send_message"
    /\ args.t = "dict"
    /\ Missing(tool, args) = {}
    /\ args.v.body = StrV("")
    /\ Truthy(args.v.to)
    /\ Truthy(args.v.subject)
    /\ Rejected
    /\ calls = << >>

\* The result is the operation's "<service> service not initialized" error.
NotInitialized ==
    result = CallToolResult("Error: " \o ServiceOf(tool) \o " service not initialized")

\* C29: validation comes before the client check: an invocation that omits
\* a required argument and targets an unset client gets the handler's
\* required-arguments error, and the not-initialized error is returned only
\* to invocations that passed validation.
C29_ValidationFirst ==
    (pc = "called" /\ args.t = "dict") =>
        /\ (~ValidArgs(tool, args) /\ HandleOf(tool) = None) =>
              (Rejected /\ ~NotInitialized)
        /\ NotInitialized => (ValidArgs(tool, args) /\ HandleOf(tool) = None)

C29_Witness ==
    /\ pc = "called"
    /\ tool = "get_directions"
    /\ args.t = "dict"
    /\ Missing(tool, args) = {"destination"}
    /\ gmaps_client = None
    /\ Rejected
    /\ calls = << >>

\* The ids the list call of a list_messages invocation returned.
Listed == Get(calls[1].out.value, "messages", << >>)

\* The message entries of the text, one "Subject: " line each.
Entries == FieldLines(result.text, "Subject: ")

\* One error line and nothing of the messages fetched before the failure.
SingleError ==
    /\ IsErrorResult(result)
    /\ Len(Lines(result.text)) = 1
    /\ Entries = << >>
    /\ FieldLines(result.text, "Snippet: ") = << >>

\* C30 as claimed: if the list call or any get fails, list_messages returns
\* a single error and none of the messages already fetched; if all calls
\* succeed, the output has exactly one entry per listed id.
C30_AllOrNothing ==
    (pc = "called" /\ tool = "list_messages" /\ calls # << >>) =>
        /\ ~NoneRaised => SingleError
        /\ NoneRaised => (Succeeded(tool) /\ Len(Entries) = Len(Listed))

\* C30 as amended: if the list call or any get fails, or a fetched message
\* has no payload, list_messages returns a single error and none of the
\* messages already fetched; if all calls succeed and every fetched message
\* carries its payload, the output has exactly one entry per listed id.
C30_AllOrNothingWellFormed ==
    (pc = "called" /\ tool = "list_messages" /\ calls # << >>) =>
        /\ (~NoneRaised \/ ~Subscripted) => SingleError
        /\ (NoneRaised /\ Subscripted) =>
              /\ Succeeded(tool)
              /\ Len(Entries) = Len(Listed)
              /\ Len(calls) = 1 + Len(Listed)

C30_Witness ==
    /\ pc = "called"
    /\ tool = "list_messages"
    /\ Len(calls) = 3
    /\ calls[2].out = Ok(FullMsg("m1"))
    /\ Raised(3)
    /\ SingleError
    /\ ~Contains(result.text, "subject of m1")

====
